---- MODULE Spec2Model ----
(***************************************************************************)
(* Model of build_tiles.py: a cache-aware downloader (download), a command *)
(* line builder and child-process invoker (run_planetiler), the entry      *)
(* point (main) and the top-level exception handler.                       *)
(*                                                                         *)
(* Text is modelled as a sequence of atoms (TLA+ strings); a path is the   *)
(* sequence of its components; the filesystem is a function from paths to  *)
(* entries (absent, directory, file with its bytes).                       *)
(***************************************************************************)
EXTENDS Integers, Sequences, FiniteSets, TLC

---------------------------------------------------------------------------
(* Bounds of the model *)

MaxBody == 1
MaxRuns == 2
MaxExitCode == 3

(* Program and platform constants *)

StatusModulus == 256
MaxStatus == 255
SIGKILL == 9
UncaughtStatus == 1
DefaultMinZoom == 0
DefaultMaxZoom == 15

DEFAULT_BOUNDS == <<"34.0,29.0,36.0,34.0">>
DefaultHeap == <<"12G">>
OsmFileName == "israel-palestine.osm.pbf"
PLANETILER_JAR_URL == <<"https:", "github.com", "onthegomap", "planetiler.jar">>
OSM_PBF_URL == <<"https:", "download.geofabrik.de", "israel-and-palestine-latest.osm.pbf">>
JavaToolOptions == "JAVA_TOOL_OPTIONS"
UseG1GC == "-XX:+UseG1GC"
DiagnosticText == "Planetiler failed with exit code"

---------------------------------------------------------------------------
(* Paths and the filesystem *)

Parent(p) == IF Len(p) = 0 THEN p ELSE SubSeq(p, 1, Len(p) - 1)

Name(p) == IF Len(p) = 0 THEN "" ELSE p[Len(p)]

Ancestors(p) == {SubSeq(p, 1, k) : k \in 0..Len(p)}

Absent == [kind |-> "absent", data |-> <<>>]

DirEntry == [kind |-> "dir", data |-> <<>>]

FileEntry(d) == [kind |-> "file", data |-> d]

\* Variant: a path counts as existing only when it holds some bytes
ExistsWithContent(f, p) == f[p].kind = "file" /\ f[p].data # <<>>

Exists(f, p) == f[p].kind # "absent"

IsDir(f, p) == f[p].kind = "dir"

IsFile(f, p) == f[p].kind = "file"

\* Variant: the directory is never made
\* Path.mkdir(parents=True, exist_ok=True): raises when the path or one of
\* its ancestors is a file, otherwise creates every missing ancestor.
MkdirRaises(f, p) == \E a \in Ancestors(p) : IsFile(f, a)

\* Variant: the directory is never made
MkdirOmitted(f, p) == f

Mkdir(f, p) == [q \in DOMAIN f |-> IF q \in Ancestors(p) THEN DirEntry ELSE f[q]]

---------------------------------------------------------------------------
(* The inputs: configurations, environments, remote bodies *)

Bytes == 0..1

Bodies == UNION {[1..n -> Bytes] : n \in 0..MaxBody}

Prefixes(b) == {SubSeq(b, 1, k) : k \in 0..Len(b)}

DataDirs == {<<"data">>, <<"tmp", "cache">>}

TmpDirs == {<<"tmp">>}

Outputs == {<<"build", "israel-palestine.mbtiles">>, <<"data", "x.mbtiles">>}

PlanetilerUrls == {PLANETILER_JAR_URL, <<"https:", "mirror", OsmFileName>>}

OsmUrls == {OSM_PBF_URL}

\* main: jar_name, planetiler_path, osm_path
jar_name(a) == Name(a.planetiler_url)

\* Variant: the tool artifact is given the data artifact's filename
planetiler_path_fixed_name(a) == a.data_dir \o <<OsmFileName>>

planetiler_path(a) == a.data_dir \o <<jar_name(a)>>

osm_path(a) == a.data_dir \o <<OsmFileName>>

CacheNames == {Name(u) : u \in PlanetilerUrls} \cup {OsmFileName}

Universe ==
    UNION {Ancestors(p) :
        p \in {d \o <<n>> : d \in DataDirs, n \in CacheNames}
              \cup TmpDirs \cup {Parent(o) : o \in Outputs} \cup {<<"out">>}}

NoPath == <<>>

DefaultArgs ==
    [data_dir |-> <<"data">>, osm_url |-> OSM_PBF_URL,
     planetiler_url |-> PLANETILER_JAR_URL,
     output |-> <<"build", "israel-palestine.mbtiles">>,
     min_zoom |-> DefaultMinZoom, max_zoom |-> DefaultMaxZoom,
     bounds |-> DEFAULT_BOUNDS, heap |-> DefaultHeap,
     tmp_dir |-> <<"tmp">>, osm_pbf |-> NoPath]

\* parse_args: configurations that differ in the cache layout
LayoutArgs ==
    {[DefaultArgs EXCEPT !.data_dir = d, !.output = o, !.planetiler_url = u,
                         !.osm_url = v] :
        d \in DataDirs, o \in Outputs, u \in PlanetilerUrls, v \in OsmUrls}

\* parse_args: configurations that differ in the values put on the command line
ProfileArgs ==
    {[DefaultArgs EXCEPT !.min_zoom = lo, !.max_zoom = hi, !.bounds = b,
                         !.heap = IF b = DEFAULT_BOUNDS THEN DefaultHeap ELSE <<"4G">>,
                         !.output = o] :
        lo \in {DefaultMinZoom, -1}, hi \in {DefaultMaxZoom, 9},
        b \in {DEFAULT_BOUNDS, <<"35.0,31.0,35.5,32.0">>},
        o \in {<<"build", "israel-palestine.mbtiles">>, <<"out", "x.mbtiles">>}}

EnvVars == {JavaToolOptions, "PATH"}

EnvValues == {"", "/opt/java"}

Environs ==
    {e \in UNION {[S -> EnvValues] : S \in SUBSET EnvVars} :
        "PATH" \in DOMAIN e => e["PATH"] = "/opt/java"}

FewEnvirons == {e \in Environs : JavaToolOptions \notin DOMAIN e}

EmptyFs == [p \in Universe |-> IF p = <<>> THEN DirEntry ELSE Absent]

WellFormed(f) ==
    /\ IsDir(f, <<>>)
    /\ \A p \in DOMAIN f : Exists(f, p) => IsDir(f, Parent(p))

\* The paths this configuration touches
Touched(a) ==
    UNION {Ancestors(p) : p \in {planetiler_path(a), osm_path(a), a.tmp_dir,
                                 Parent(a.output)}}

CachePaths(a) == {planetiler_path(a), osm_path(a)}

InitialEntries(a, p) ==
    IF p = <<>> THEN {DirEntry}
    ELSE IF p \in CachePaths(a) THEN {Absent} \cup {FileEntry(b) : b \in Bodies}
    ELSE IF p \in Touched(a) THEN {Absent, DirEntry, FileEntry(<<>>)}
    ELSE {Absent}

RECURSIVE Populate(_, _, _)
Populate(a, todo, acc) ==
    IF todo = {} THEN acc
    ELSE LET p == CHOOSE q \in todo : TRUE
         IN Populate(a, todo \ {p},
                     {[f EXCEPT ![p] = e] : f \in acc, e \in InitialEntries(a, p)})

Filesystems(a) == {f \in Populate(a, Touched(a), {EmptyFs}) : WellFormed(f)}

FreshFilesystems(a) == {EmptyFs}

---------------------------------------------------------------------------
(* Text: str(Path), str(int) and the f-strings of run_planetiler *)

Digits == <<"0", "1", "2", "3", "4", "5", "6", "7", "8", "9">>

RECURSIVE NatStr(_)
NatStr(n) == IF n < 10 THEN <<Digits[n + 1]>>
             ELSE NatStr(n \div 10) \o <<Digits[(n % 10) + 1]>>

\* str(int)
IntStr(n) == IF n < 0 THEN <<"-">> \o NatStr(-n) ELSE NatStr(n)

\* str(Path): the components joined by "/", "." for the empty path
RECURSIVE PathStr(_)
PathStr(p) == IF Len(p) = 0 THEN <<".">>
              ELSE IF Len(p) = 1 THEN <<p[1]>>
              ELSE PathStr(Parent(p)) \o <<"/", p[Len(p)]>>

\* Variant: the two zoom levels change places
CommandZoomSwapped(jar, a) ==
    << <<"java">>,
       <<"-Xmx">> \o a.heap,
       <<"-jar">>,
       PathStr(jar),
       <<"--osm-path=">> \o PathStr(a.osm_pbf),
       <<"--mbtiles=">> \o PathStr(a.output),
       <<"--download=true">>,
       <<"--min-zoom=">> \o IntStr(a.max_zoom),
       <<"--max-zoom=">> \o IntStr(a.min_zoom),
       <<"--bounds=">> \o a.bounds,
       <<"--languages=he,ar,en">>,
       <<"--name=Israel/Palestine Compact">>,
       <<"--description=High-zoom compact tiles for Israel and Palestine">>,
       <<"--tmp=">> \o PathStr(a.tmp_dir) >>

\* run_planetiler: the argument list
Command(jar, a) ==
    << <<"java">>,
       <<"-Xmx">> \o a.heap,
       <<"-jar">>,
       PathStr(jar),
       <<"--osm-path=">> \o PathStr(a.osm_pbf),
       <<"--mbtiles=">> \o PathStr(a.output),
       <<"--download=true">>,
       <<"--min-zoom=">> \o IntStr(a.min_zoom),
       <<"--max-zoom=">> \o IntStr(a.max_zoom),
       <<"--bounds=">> \o a.bounds,
       <<"--languages=he,ar,en">>,
       <<"--name=Israel/Palestine Compact">>,
       <<"--description=High-zoom compact tiles for Israel and Palestine">>,
       <<"--tmp=">> \o PathStr(a.tmp_dir) >>

\* Variant: plain assignment instead of setdefault
SetAlways(e, k, v) == [x \in DOMAIN e \cup {k} |-> IF x = k THEN v ELSE e[x]]

\* dict.setdefault on a copy of the environment
SetDefault(e, k, v) ==
    IF k \in DOMAIN e THEN e
    ELSE [x \in DOMAIN e \cup {k} |-> IF x = k THEN v ELSE e[x]]

ChildEnvironment(e) == SetDefault(e, JavaToolOptions, UseG1GC)

\* Variant: sys.exit(1) whatever the child returned
ExitStatusOne(n) == 1

\* sys.exit(n): the status the parent of this process observes
ExitStatusOf(n) == n % StatusModulus

---------------------------------------------------------------------------
(* The state *)

VARIABLES
    args,        \* the argparse namespace
    environ,     \* os.environ of this process
    fs,          \* the filesystem
    pc,          \* position in main
    retrievals,  \* the urlretrieve calls of this run, in order
    trace,       \* the steps of main this run has completed, in order
    cmd,         \* argument list handed to subprocess.run (<<>> before)
    childEnv,    \* environment handed to subprocess.run
    stderr,      \* what this run wrote to the diagnostic stream
    exitStatus,  \* exit status of this run (-1 while running)
    runs,        \* number of runs started
    fs0,         \* the filesystem when this run started
    truncated,   \* files left behind by a retrieval that failed mid-transfer
    child        \* how the child process of this run ended

vars == <<args, environ, fs, pc, retrievals, trace, cmd, childEnv, stderr,
          exitStatus, runs, fs0, truncated, child>>

Running == -1

NoEnv == [x \in {} |-> ""]

NoChild == [kind |-> "none", code |-> 0]

\* The state in which main starts
Started ==
    /\ child = NoChild
    /\ fs0 = fs
    /\ pc = "download_jar"
    /\ retrievals = <<>>
    /\ trace = <<>>
    /\ cmd = <<>>
    /\ childEnv = NoEnv
    /\ stderr = <<>>
    /\ exitStatus = Running
    /\ runs = 1
    /\ truncated = {}

Init ==
    /\ args \in LayoutArgs
    /\ environ \in FewEnvirons
    /\ fs \in Filesystems(args)
    /\ Started

InitProfile ==
    /\ args \in ProfileArgs
    /\ environ \in Environs
    /\ fs \in FreshFilesystems(args)
    /\ Started

\* Variant: an empty file is not taken for a cached artifact
CacheHitIfNotEmpty(f, target) == Exists(f, target) /\ f[target].data # <<>>

\* download, line 30: target.exists()
CacheHit(f, target) == Exists(f, target)

\* Variant: urlretrieve(url) without the target, writing elsewhere
RetrievedElsewhere(f, target, got) == f

\* urlretrieve(url, target) writes what it received to target
Retrieved(f, target, got) == [f EXCEPT ![target] = FileEntry(got)]

\* Variant: the exception is swallowed and main goes on
UncaughtSwallowed(exc) ==
    /\ pc' = "mkdirs"
    /\ stderr' = stderr
    /\ exitStatus' = exitStatus

\* An exception nobody catches: traceback on stderr, status 1
Uncaught(exc) ==
    /\ pc' = "exited"
    /\ stderr' = Append(stderr, [text |-> "Traceback", code |-> exc])
    /\ exitStatus' = UncaughtStatus

\* download(url, target), called at position here, continuing at next
Download(here, next, url, target) ==
    /\ pc = here
    /\ UNCHANGED <<args, environ, cmd, childEnv, runs, fs0, child>>
    /\ IF MkdirRaises(fs, Parent(target))
       THEN /\ Uncaught("OSError")
            /\ UNCHANGED <<fs, retrievals, trace, truncated>>
       ELSE LET made == Mkdir(fs, Parent(target)) IN
            IF CacheHit(made, target)
            THEN \* already exists, skipping download
                 /\ fs' = made
                 /\ pc' = next
                 /\ trace' = Append(trace, here)
                 /\ UNCHANGED <<retrievals, stderr, exitStatus, truncated>>
            ELSE \* urlretrieve(url, target)
                 \/ \E body \in Bodies :
                      \* the whole resource arrives
                      /\ fs' = Retrieved(made, target, body)
                      /\ retrievals' = Append(retrievals,
                             [url |-> url, target |-> target, ok |-> TRUE, body |-> body])
                      /\ pc' = next
                      /\ trace' = Append(trace, here)
                      /\ UNCHANGED <<stderr, exitStatus, truncated>>
                 \/ \* urlopen fails: the file is never opened
                    /\ fs' = made
                    /\ retrievals' = Append(retrievals,
                           [url |-> url, target |-> target, ok |-> FALSE, body |-> <<>>])
                    /\ Uncaught("URLError")
                    /\ UNCHANGED <<trace, truncated>>
                 \/ \E body \in Bodies : \E got \in Prefixes(body) \ {body} :
                      \* the transfer breaks after the file was opened
                      /\ fs' = Retrieved(made, target, got)
                      /\ retrievals' = Append(retrievals,
                             [url |-> url, target |-> target, ok |-> FALSE, body |-> got])
                      /\ truncated' = truncated \cup {target}
                      /\ Uncaught("URLError")
                      /\ UNCHANGED trace

DownloadJar == Download("download_jar", "download_osm", args.planetiler_url, planetiler_path(args))

DownloadOsm == Download("download_osm", "mkdirs", args.osm_url, osm_path(args))

\* main, lines 122-124
MakeDirs ==
    /\ pc = "mkdirs"
    /\ args' = [args EXCEPT !.osm_pbf = osm_path(args)]
    /\ UNCHANGED <<environ, retrievals, cmd, childEnv, runs, fs0, truncated, child>>
    /\ IF MkdirRaises(fs, Parent(args.output))
       THEN /\ Uncaught("OSError")
            /\ UNCHANGED <<fs, trace>>
       ELSE LET made == Mkdir(fs, Parent(args.output)) IN
            IF MkdirRaises(made, args.tmp_dir)
            THEN /\ fs' = made
                 /\ Uncaught("OSError")
                 /\ UNCHANGED trace
            ELSE /\ fs' = Mkdir(made, args.tmp_dir)
                 /\ pc' = "run_planetiler"
                 /\ trace' = Append(trace, "mkdirs")
                 /\ UNCHANGED <<stderr, exitStatus>>

\* run_planetiler up to the spawn of the child by subprocess.run
RunPlanetiler ==
    /\ pc = "run_planetiler"
    /\ UNCHANGED <<args, environ, fs, retrievals, runs, fs0, truncated, child>>
    /\ \/ /\ cmd' = Command(planetiler_path(args), args)
          /\ childEnv' = ChildEnvironment(environ)
          /\ pc' = "child_running"
          /\ trace' = Append(trace, "run_planetiler")
          /\ UNCHANGED <<stderr, exitStatus>>
       \/ \* the executable cannot be started
          /\ Uncaught("OSError")
          /\ UNCHANGED <<cmd, childEnv, trace>>

\* How a child can end: exit(n) with n in 0..255, or killed by a signal
ChildEndings ==
    {[kind |-> "exited", code |-> n] : n \in (0..MaxExitCode) \cup {MaxStatus}}
        \cup {[kind |-> "signaled", code |-> SIGKILL]}

\* Popen.returncode: the exit code, or -N when signal N killed the child
ReturnCode(c) == IF c.kind = "signaled" THEN -c.code ELSE c.code

\* Variant: the handler runs for every return code
FinishAlwaysReports(returncode) ==
    /\ stderr' = Append(stderr, [text |-> DiagnosticText, code |-> returncode])
    /\ exitStatus' = ExitStatusOf(returncode)

\* subprocess.run(check=True) returns or raises; the handler of __main__
Finish(returncode) ==
    IF returncode = 0
    THEN /\ exitStatus' = 0
         /\ stderr' = stderr
    ELSE /\ stderr' = Append(stderr, [text |-> DiagnosticText, code |-> returncode])
         /\ exitStatus' = ExitStatusOf(returncode)

ChildExit ==
    /\ pc = "child_running"
    /\ \E c \in ChildEndings :
         /\ c.kind = "exited" => c.code <= MaxStatus
         /\ child' = c
         /\ Finish(ReturnCode(c))
    /\ pc' = "exited"
    /\ UNCHANGED <<args, environ, fs, retrievals, trace, cmd, childEnv, runs, fs0, truncated>>

\* The caller runs the script again with the same configuration
NewRun ==
    /\ pc = "exited"
    /\ runs < MaxRuns
    /\ runs' = runs + 1
    /\ pc' = "download_jar"
    /\ args' = [args EXCEPT !.osm_pbf = NoPath]
    /\ fs0' = fs
    /\ retrievals' = <<>>
    /\ trace' = <<>>
    /\ cmd' = <<>>
    /\ childEnv' = NoEnv
    /\ stderr' = <<>>
    /\ exitStatus' = Running
    /\ child' = NoChild
    /\ UNCHANGED <<environ, fs, truncated>>

\* Between runs the caller deletes a cached artifact
CallerDelete ==
    /\ pc = "exited"
    /\ runs < MaxRuns
    /\ \E p \in CachePaths(args) :
         /\ IsFile(fs, p)
         /\ fs' = [fs EXCEPT ![p] = Absent]
         /\ truncated' = truncated \ {p}
    /\ UNCHANGED <<args, environ, pc, retrievals, trace, cmd, childEnv, stderr,
                   exitStatus, runs, fs0, child>>

Next ==
    \/ DownloadJar
    \/ DownloadOsm
    \/ MakeDirs
    \/ RunPlanetiler
    \/ ChildExit
    \/ NewRun
    \/ CallerDelete

Spec == Init /\ [][Next]_vars

SpecProfile == InitProfile /\ [][Next]_vars

TypeOK ==
    /\ pc \in {"download_jar", "download_osm", "mkdirs", "run_planetiler",
               "child_running", "exited"}
    /\ WellFormed(fs)
    /\ runs \in 1..MaxRuns
    /\ (exitStatus = Running) = (pc # "exited")

---------------------------------------------------------------------------
(* Properties *)

Steps ==
    {[here |-> "download_jar", next |-> "download_osm",
      url |-> args.planetiler_url, target |-> planetiler_path(args)],
     [here |-> "download_osm", next |-> "mkdirs",
      url |-> args.osm_url, target |-> osm_path(args)]}

Present(f, p) == f[p].kind \in {"file", "dir"}

Fetched(p) == \E i \in DOMAIN retrievals : retrievals[i].target = p

\* C1: a download whose target already exists makes no retrieval, returns
\* normally to the next step of main and leaves the target's content as it
\* was, whatever the url and the existing content (empty included).
C1_CachedTargetUntouched ==
    [][\A s \in Steps :
          (pc = s.here /\ Present(fs, s.target))
              => /\ retrievals' = retrievals
                 /\ pc' = s.next
                 /\ exitStatus' = Running
                 /\ stderr' = stderr
                 /\ fs'[s.target] = fs[s.target]]_vars

C1_Witness ==
    /\ pc = "download_osm"
    /\ trace = <<"download_jar">>
    /\ retrievals = <<>>
    /\ fs[planetiler_path(args)] = FileEntry(<<>>)
    /\ fs0[planetiler_path(args)] = FileEntry(<<>>)

SuccessfulFetch(s) ==
    /\ pc = s.here
    /\ ~Present(fs, s.target)
    /\ pc' = s.next

\* C2 as stated: after a download of a missing target whose retrieval
\* succeeds, the target exists and is non-empty and its parent directory
\* exists.
C2_FetchedTargetNonEmpty ==
    [][\A s \in Steps :
          SuccessfulFetch(s)
              => /\ fs'[s.target].kind = "file"
                 /\ fs'[s.target].data # <<>>
                 /\ fs'[Parent(s.target)].kind = "dir"]_vars

\* C2 amended: after a download of a missing target whose retrieval succeeds,
\* the target is a file holding exactly the bytes retrieved from that url
\* (empty when the resource is empty) and its parent directory exists.
C2_FetchedTargetHoldsBody ==
    [][\A s \in Steps :
          SuccessfulFetch(s)
              => /\ Len(retrievals') = Len(retrievals) + 1
                 /\ LET r == retrievals'[Len(retrievals')]
                    IN /\ r.url = s.url /\ r.target = s.target /\ r.ok
                       /\ fs'[s.target] = [kind |-> "file", data |-> r.body]
                 /\ fs'[Parent(s.target)].kind = "dir"]_vars

C2_Witness ==
    /\ pc = "download_osm"
    /\ fs0[planetiler_path(args)].kind = "absent"
    /\ Len(retrievals) = 1
    /\ retrievals[1].ok
    /\ retrievals[1].body = <<>>
    /\ fs[planetiler_path(args)] = [kind |-> "file", data |-> <<>>]

\* C3: when the child ends with a non-zero exit code n, the run writes the
\* diagnostic message carrying n to stderr and exits with status n.
C3_ExitCodePropagated ==
    (child.kind = "exited" /\ child.code # 0)
        => /\ pc = "exited"
           /\ exitStatus = child.code
           /\ stderr = <<[text |-> DiagnosticText, code |-> child.code]>>

C3_Witness ==
    /\ child = [kind |-> "exited", code |-> 3]
    /\ exitStatus = 3
    /\ Present(fs, planetiler_path(args))
    /\ Present(fs, osm_path(args))

\* C4: when both downloads returned and the child exits with code 0, the run
\* exits with status 0 and has written nothing to stderr.
C4_SuccessIsSilent ==
    (child.kind = "exited" /\ child.code = 0)
        => /\ pc = "exited"
           /\ exitStatus = 0
           /\ stderr = <<>>

C4_Witness ==
    /\ child = [kind |-> "exited", code |-> 0]
    /\ exitStatus = 0
    /\ Len(retrievals) = 1
    /\ trace = <<"download_jar", "download_osm", "mkdirs", "run_planetiler">>

MainOrder == <<"download_jar", "download_osm", "mkdirs", "run_planetiler">>

OrderAndPreconditions ==
    /\ Len(trace) <= Len(MainOrder)
    /\ trace = SubSeq(MainOrder, 1, Len(trace))
    /\ (cmd # <<>>) => trace = MainOrder
    /\ pc = "child_running"
          => /\ Present(fs, planetiler_path(args))
             /\ Present(fs, osm_path(args))
             /\ fs[Parent(args.output)].kind = "dir"
             /\ fs[args.tmp_dir].kind = "dir"

BothFetched == pc \notin {"download_jar", "download_osm"}

Value(arg) == SubSeq(arg, 2, Len(arg))

ReadPath(text) == SelectSeq(text, LAMBDA x : x # "/")

DigitValue(d) == (CHOOSE i \in 1..10 : Digits[i] = d) - 1

RECURSIVE ReadNat(_)
ReadNat(text) ==
    IF Len(text) = 0 THEN 0
    ELSE 10 * ReadNat(SubSeq(text, 1, Len(text) - 1)) + DigitValue(text[Len(text)])

ReadInt(text) == IF text[1] = "-" THEN -ReadNat(Tail(text)) ELSE ReadNat(text)

Occurrences(c, flag) == {i \in DOMAIN c : c[i][1] = flag}

FlagPositions ==
    [i \in {5, 6, 8, 9, 10} |->
        CASE i = 5 -> "--osm-path="
          [] i = 6 -> "--mbtiles="
          [] i = 8 -> "--min-zoom="
          [] i = 9 -> "--max-zoom="
          [] i = 10 -> "--bounds="]

\* C6: the command line handed to the child has exactly one --osm-path,
\* --mbtiles, --min-zoom, --max-zoom and --bounds argument, always at the same
\* positions, and each carries the value of the configuration: the data
\* artifact's cache path, the output path, the two zoom levels, the bounds.
C6_CommandCarriesConfiguration ==
    cmd # <<>>
        => /\ Len(cmd) = 14
           /\ \A i \in DOMAIN FlagPositions : Occurrences(cmd, FlagPositions[i]) = {i}
           /\ ReadPath(Value(cmd[5])) = args.data_dir \o <<OsmFileName>>
           /\ ReadPath(Value(cmd[6])) = args.output
           /\ ReadInt(Value(cmd[8])) = args.min_zoom
           /\ ReadInt(Value(cmd[9])) = args.max_zoom
           /\ Value(cmd[10]) = args.bounds

C6_Witness ==
    /\ pc = "child_running"
    /\ args.min_zoom = -1
    /\ args.max_zoom = 9
    /\ args.bounds # DEFAULT_BOUNDS
    /\ args.output = <<"out", "x.mbtiles">>
    /\ cmd[8] = <<"--min-zoom=", "-", "1">>
    /\ cmd[6] = <<"--mbtiles=", "out", "/", "x.mbtiles">>

\* C7: the child's environment has every variable of the caller with the
\* caller's value; JAVA_TOOL_OPTIONS is -XX:+UseG1GC exactly when the caller
\* has not set it; nothing else is added; and no step changes this process's
\* own environment.
C7_EnvironmentForwarded ==
    /\ [](cmd # <<>>
            => /\ DOMAIN childEnv = DOMAIN environ \cup {JavaToolOptions}
               /\ \A k \in DOMAIN environ : childEnv[k] = environ[k]
               /\ JavaToolOptions \notin DOMAIN environ
                     => childEnv[JavaToolOptions] = UseG1GC)
    /\ [][environ' = environ]_vars

C7_Witness ==
    /\ pc = "child_running"
    /\ JavaToolOptions \in DOMAIN environ
    /\ environ[JavaToolOptions] = ""
    /\ childEnv[JavaToolOptions] = ""
    /\ "PATH" \in DOMAIN childEnv

TransportError == \E i \in DOMAIN retrievals : ~retrievals[i].ok

AfterTransportError ==
    /\ pc = "exited"
    /\ exitStatus = UncaughtStatus
    /\ exitStatus # 0
    /\ ~retrievals[Len(retrievals)].ok
    /\ \A i, j \in DOMAIN retrievals : retrievals[i].target = retrievals[j].target => i = j
    /\ \A i \in 1..(Len(retrievals) - 1) : retrievals[i].ok
    /\ trace \in {<<>>, <<"download_jar">>}
    /\ trace = <<>> => retrievals = <<[url |-> args.planetiler_url,
                                       target |-> planetiler_path(args),
                                       ok |-> FALSE,
                                       body |-> retrievals[1].body]>>
    /\ cmd = <<>>
    /\ child = NoChild

\* C8 as stated: after a transport error in either fetch the run has ended
\* with the status of an uncaught exception, the failed retrieval was the
\* last one (no retry, no later fetch), the child was never invoked, and the
\* output directory and the scratch directory were not created by the run.
C8_TransportErrorStopsRun ==
    TransportError
        => /\ AfterTransportError
           /\ \A d \in {Parent(args.output), args.tmp_dir} :
                  fs[d].kind = "dir" => fs0[d].kind = "dir"

\* C8 amended: as above, except that an output or scratch directory which is
\* the cache directory or one of its ancestors has been created by download
\* before the retrieval.
C8_TransportErrorStopsRunOtherDirs ==
    TransportError
        => /\ AfterTransportError
           /\ \A d \in {Parent(args.output), args.tmp_dir} \ Ancestors(args.data_dir) :
                  fs[d].kind = "dir" => fs0[d].kind = "dir"

C8_Witness ==
    /\ Len(retrievals) = 2
    /\ retrievals[1].ok
    /\ ~retrievals[2].ok
    /\ exitStatus = UncaughtStatus
    /\ fs0[args.tmp_dir].kind = "absent"
    /\ fs[args.tmp_dir].kind = "absent"

\* C9: in every run, a cache path that exists (a truncated file left by a
\* failed download included) is never retrieved again nor changed by a step
\* of the program, and the download of it continues with the next step of
\* main; only the caller's deletion between runs removes it.
C9_CacheIsSticky ==
    [][\A s \in Steps :
          Present(fs, s.target)
              => /\ fs'[s.target] = fs[s.target]
                    \/ (pc = "exited" /\ pc' = "exited" /\ fs'[s.target].kind = "absent")
                 /\ \A i \in DOMAIN retrievals' :
                        retrievals'[i].target = s.target => i \in DOMAIN retrievals
                 /\ pc = s.here => pc' = s.next]_vars

C9_Witness ==
    /\ runs = 2
    /\ pc = "child_running"
    /\ planetiler_path(args) \in truncated
    /\ fs[planetiler_path(args)] = fs0[planetiler_path(args)]
    /\ ~Fetched(planetiler_path(args))
    /\ Fetched(osm_path(args))

EmptyCacheAtStart == \A p \in CachePaths(args) : fs0[p].kind = "absent"

TwoArtifacts ==
    /\ planetiler_path(args) # osm_path(args)
    /\ (EmptyCacheAtStart /\ pc \in {"mkdirs", "run_planetiler", "child_running"})
          => /\ Len(retrievals) = 2
             /\ retrievals[1].url = args.planetiler_url
             /\ retrievals[2].url = args.osm_url
             /\ retrievals[1].target # retrievals[2].target
             /\ \A i \in 1..2 :
                    fs[retrievals[i].target] = [kind |-> "file", data |-> retrievals[i].body]
             /\ Cardinality({p \in DOMAIN fs : Parent(p) = args.data_dir /\ p # <<>>
                                                /\ fs[p].kind = "file"}) = 2
    /\ (cmd # <<>>) => cmd[4] # Value(cmd[5])

\* C10 as stated: for every tool url and data url the two cache paths are
\* distinct files; a run that starts with an empty cache has, after both
\* fetches, two artifacts in the cache directory, each retrieved from its own
\* url; and the executable given to the child is not its input data path.
C10_TwoDistinctArtifacts == TwoArtifacts

\* C10 amended: the same, for every tool url whose filename is not
\* israel-palestine.osm.pbf.
C10_TwoDistinctArtifactsUnlessSameName ==
    Name(args.planetiler_url) # OsmFileName => TwoArtifacts

C10_Witness ==
    /\ pc = "child_running"
    /\ EmptyCacheAtStart
    /\ Name(args.planetiler_url) # OsmFileName
    /\ fs[planetiler_path(args)].kind = "file"
    /\ fs[osm_path(args)].kind = "file"
    /\ cmd[4] = <<"data", "/", "planetiler.jar">>

====
